---- MODULE Spec2Model ----
(***************************************************************************)
(* Model of the sandboxed document parser,                                 *)
(* packages/document-parser/parse.py: the command-line entry point main(), *)
(* the primary pipeline parse_pdf(), the alternate path parse_image(), and *)
(* the pure helpers compute_hash(), extract_tables(), detect_sections().   *)
(*                                                                         *)
(* A Python str is a sequence of characters; a character is a one-element  *)
(* TLA+ string, except the two code points written "U+00DF" (LATIN SMALL   *)
(* LETTER SHARP S, whose upper-case form is the two characters "SS") and   *)
(* "U+D800" (a lone surrogate, which UTF-8 cannot encode).                 *)
(***************************************************************************)
EXTENDS Integers, Sequences, FiniteSets, TLC

(***************************************************************************)
(* Bounds of the model.                                                    *)
(***************************************************************************)
MaxChunks == 3
MaxPages == 2

(***************************************************************************)
(* Sequence helpers (Python list / str primitives).                        *)
(***************************************************************************)
RECURSIVE Flatten(_)
Flatten(ss) ==
    IF ss = <<>> THEN <<>> ELSE Head(ss) \o Flatten(Tail(ss))

\* sep.join(parts)
RECURSIVE Join(_, _)
Join(sep, parts) ==
    IF parts = <<>> THEN <<>>
    ELSE IF Len(parts) = 1 THEN parts[1]
    ELSE parts[1] \o sep \o Join(sep, Tail(parts))

\* haystack.find(needle): leftmost 0-based index, or -1
Find(haystack, needle) ==
    LET hits == {i \in 0..(Len(haystack) - Len(needle)) :
                    SubSeq(haystack, i + 1, i + Len(needle)) = needle}
    IN IF hits = {} THEN -1
       ELSE CHOOSE i \in hits : \A j \in hits : i <= j

\* str(n) for a natural number n
Digits == <<"0", "1", "2", "3", "4", "5", "6", "7", "8", "9">>
RECURSIVE Str(_)
Str(n) ==
    IF n < 10 THEN <<Digits[n + 1]>>
    ELSE Str(n \div 10) \o <<Digits[(n % 10) + 1]>>

\* characters str.strip() removes
Whitespace == {" ", "\n", "\t", "\r"}
RECURSIVE LStrip(_)
LStrip(s) ==
    IF s # <<>> /\ Head(s) \in Whitespace THEN LStrip(Tail(s)) ELSE s
RECURSIVE RStrip(_)
RStrip(s) ==
    IF s # <<>> /\ s[Len(s)] \in Whitespace
    THEN RStrip(SubSeq(s, 1, Len(s) - 1)) ELSE s
Strip(s) == RStrip(LStrip(s))

(***************************************************************************)
(* str.upper(): ASCII lower-case letters map to their capitals, U+00DF     *)
(* maps to the two characters "SS", every other character to itself.       *)
(***************************************************************************)
LowerChars == <<"a", "b", "c", "d", "e", "f", "g", "h", "i", "j", "k", "l", "m",
                "n", "o", "p", "q", "r", "s", "t", "u", "v", "w", "x", "y", "z">>
UpperChars == <<"A", "B", "C", "D", "E", "F", "G", "H", "I", "J", "K", "L", "M",
                "N", "O", "P", "Q", "R", "S", "T", "U", "V", "W", "X", "Y", "Z">>
UpperChar(c) ==
    IF \E i \in 1..Len(LowerChars) : LowerChars[i] = c
    THEN <<UpperChars[CHOOSE i \in 1..Len(LowerChars) : LowerChars[i] = c]>>
    ELSE IF c = "U+00DF" THEN <<"S", "S">>
    ELSE <<c>>
Upper(text) == Flatten([i \in 1..Len(text) |-> UpperChar(text[i])])

(***************************************************************************)
(* compute_hash: hex SHA-256 of the UTF-8 encoding of the content.         *)
(* The encoding is modelled byte by byte; the digest is an uninterpreted   *)
(* injective image of the byte string, 64 hex characters in the program    *)
(* and never the empty string.                                             *)
(***************************************************************************)
Utf8Char(c) ==
    IF c = "U+00DF" THEN <<"0xC3", "0x9F">> ELSE <<c>>
Encodable(content) == \A i \in 1..Len(content) : content[i] # "U+D800"
Utf8(content) == Flatten([i \in 1..Len(content) |-> Utf8Char(content[i])])
Sha256Hex(bytes) == <<"sha256">> \o bytes
compute_hash(content) == Sha256Hex(Utf8(content))

(***************************************************************************)
(* detect_sections                                                         *)
(***************************************************************************)
section_patterns == <<
    (* CHIEF COMPLAINT              *) <<"C","H","I","E","F"," ","C","O","M","P","L","A","I","N","T">>,
    (* HISTORY OF PRESENT ILLNESS   *) <<"H","I","S","T","O","R","Y"," ","O","F"," ","P","R","E","S","E","N","T"," ","I","L","L","N","E","S","S">>,
    (* HPI                          *) <<"H","P","I">>,
    (* PAST MEDICAL HISTORY         *) <<"P","A","S","T"," ","M","E","D","I","C","A","L"," ","H","I","S","T","O","R","Y">>,
    (* PMH                          *) <<"P","M","H">>,
    (* MEDICATIONS                  *) <<"M","E","D","I","C","A","T","I","O","N","S">>,
    (* ALLERGIES                    *) <<"A","L","L","E","R","G","I","E","S">>,
    (* SOCIAL HISTORY               *) <<"S","O","C","I","A","L"," ","H","I","S","T","O","R","Y">>,
    (* FAMILY HISTORY               *) <<"F","A","M","I","L","Y"," ","H","I","S","T","O","R","Y">>,
    (* REVIEW OF SYSTEMS            *) <<"R","E","V","I","E","W"," ","O","F"," ","S","Y","S","T","E","M","S">>,
    (* ROS                          *) <<"R","O","S">>,
    (* PHYSICAL EXAMINATION         *) <<"P","H","Y","S","I","C","A","L"," ","E","X","A","M","I","N","A","T","I","O","N">>,
    (* PHYSICAL EXAM                *) <<"P","H","Y","S","I","C","A","L"," ","E","X","A","M">>,
    (* VITAL SIGNS                  *) <<"V","I","T","A","L"," ","S","I","G","N","S">>,
    (* VITALS                       *) <<"V","I","T","A","L","S">>,
    (* ASSESSMENT                   *) <<"A","S","S","E","S","S","M","E","N","T">>,
    (* PLAN                         *) <<"P","L","A","N">>,
    (* ASSESSMENT AND PLAN          *) <<"A","S","S","E","S","S","M","E","N","T"," ","A","N","D"," ","P","L","A","N">>,
    (* A/P                          *) <<"A","/","P">>,
    (* LABS                         *) <<"L","A","B","S">>,
    (* LABORATORY                   *) <<"L","A","B","O","R","A","T","O","R","Y">>,
    (* IMAGING                      *) <<"I","M","A","G","I","N","G">>,
    (* RADIOLOGY                    *) <<"R","A","D","I","O","L","O","G","Y">>,
    (* DIAGNOSIS                    *) <<"D","I","A","G","N","O","S","I","S">>,
    (* DIAGNOSES                    *) <<"D","I","A","G","N","O","S","E","S">>,
    (* IMPRESSION                   *) <<"I","M","P","R","E","S","S","I","O","N">>,
    (* RECOMMENDATIONS              *) <<"R","E","C","O","M","M","E","N","D","A","T","I","O","N","S">>,
    (* FOLLOW UP                    *) <<"F","O","L","L","O","W"," ","U","P">>,
    (* FOLLOW-UP                    *) <<"F","O","L","L","O","W","-","U","P">>,
    (* DISCHARGE SUMMARY            *) <<"D","I","S","C","H","A","R","G","E"," ","S","U","M","M","A","R","Y">>,
    (* OPERATIVE REPORT             *) <<"O","P","E","R","A","T","I","V","E"," ","R","E","P","O","R","T">>,
    (* PROCEDURE NOTE               *) <<"P","R","O","C","E","D","U","R","E"," ","N","O","T","E">>
>>

search_patterns(pattern) ==
    << <<"\n">> \o pattern \o <<":">>,
       <<"\n">> \o pattern \o <<"\n">>,
       <<"\n">> \o pattern \o <<" ">> >>

FirstFound_Leftmost(text_upper, pattern) ==
    LET sp == search_patterns(pattern)
        idxs == {Find(text_upper, sp[k]) : k \in 1..Len(sp)} \ {-1}
    IN IF idxs = {} THEN -1
       ELSE CHOOSE i \in idxs : \A j \in idxs : i <= j
\* the inner loop: the first needle, in priority order, that occurs
FirstFound(text_upper, pattern) ==
    LET sp == search_patterns(pattern)
        found == {k \in 1..Len(sp) : Find(text_upper, sp[k]) # -1}
    IN IF found = {} THEN -1
       ELSE Find(text_upper, sp[CHOOSE k \in found : \A j \in found : k <= j])

\* the outer loop: one tentative span per vocabulary entry that is found
RECURSIVE Probe(_, _)
Probe(text_upper, k) ==
    IF k > Len(section_patterns) THEN <<>>
    ELSE LET idx == FirstFound(text_upper, section_patterns[k])
         IN (IF idx # -1
             THEN << [name |-> section_patterns[k],
                      startIndex |-> idx + 1,
                      detected |-> TRUE] >>
             ELSE <<>>) \o Probe(text_upper, k + 1)

\* list.sort(key=startIndex): stable insertion sort
RECURSIVE InsertByStart(_, _)
InsertByStart(sorted, s) ==
    IF sorted = <<>> THEN <<s>>
    ELSE IF sorted[Len(sorted)].startIndex <= s.startIndex
         THEN Append(sorted, s)
         ELSE Append(InsertByStart(SubSeq(sorted, 1, Len(sorted) - 1), s),
                     sorted[Len(sorted)])
RECURSIVE SortFrom(_, _, _)
SortFrom(sections, sorted, k) ==
    IF k > Len(sections) THEN sorted
    ELSE SortFrom(sections, InsertByStart(sorted, sections[k]), k + 1)
SortByStart_Unsorted(sections) == sections
SortByStart(sections) == SortFrom(sections, <<>>, 1)

AssignEndIndex(sections, textLen) ==
    [i \in 1..Len(sections) |->
        [name |-> sections[i].name,
         startIndex |-> sections[i].startIndex,
         detected |-> sections[i].detected,
         endIndex |-> IF i + 1 <= Len(sections)
                      THEN sections[i + 1].startIndex
                      ELSE textLen]]

detect_sections(text) ==
    AssignEndIndex(SortByStart(Probe(Upper(text), 1)), Len(text))

(***************************************************************************)
(* extract_tables.  What page.find_tables() does on a page is the input:   *)
(* raises == TRUE when find_tables() itself raises; otherwise tables is    *)
(* the sequence the finder iterates, each element saying whether           *)
(* table.extract() raises and, if not, the matrix it returns.              *)
(***************************************************************************)
RECURSIVE ExtractLoop(_, _)
ExtractLoop(tables, rest) ==
    IF rest = <<>> THEN tables
    ELSE IF Head(rest).raises THEN tables          \* except Exception: pass
    ELSE IF Head(rest).data # <<>>                 \* if extracted:
         THEN ExtractLoop(Append(tables, Head(rest).data), Tail(rest))
         ELSE ExtractLoop(tables, Tail(rest))
extract_tables(finder) ==
    IF finder.raises THEN <<>> ELSE ExtractLoop(<<>>, finder.tables)

(***************************************************************************)
(* Inputs the environment can supply.                                      *)
(***************************************************************************)
TableA == << <<"a", "b">>, <<"1", "2">> >>
TableB == << <<"c">> >>
Extracted(m) == [raises |-> FALSE, data |-> m]
ExtractRaises == [raises |-> TRUE, data |-> <<>>]
TableFinders ==
    { [raises |-> TRUE,  tables |-> <<>>],
      [raises |-> FALSE, tables |-> <<>>],
      [raises |-> FALSE, tables |-> <<Extracted(TableA)>>],
      [raises |-> FALSE, tables |-> <<Extracted(TableA), ExtractRaises>>],
      [raises |-> FALSE, tables |-> <<Extracted(<<>>), Extracted(TableB)>>] }

PageTexts ==
    { <<>>,
      <<"H", "P", "I", ":", "x">>,
      <<"U+D800">> }

MetadataKeys ==
    {"title", "author", "subject", "creator", "producer",
     "creationDate", "modDate"}
EmptyDict == [k \in {} |-> ""]
DocMetadata == { EmptyDict, [k \in {"title"} |-> "Report"] }

ImageBytes == <<"0x89", "0x50">>

Exts == {"pdf", "image", "other"}

(***************************************************************************)
(* State.                                                                  *)
(***************************************************************************)
VARIABLES
    argc,          \* len(sys.argv)
    inputExists,   \* Path(input_path).exists()
    ext,           \* class of the lower-cased input path's suffix
    outWritable,   \* whether open(output_path, 'w') succeeds
    pc,            \* position of main
    ppc,           \* position of parse_pdf ("idle" outside it)
    result,        \* the result dictionary (parse_pdf's, then main's)
    doc,           \* the document handle: "none", "open", "closed"
    pages,         \* what each page visited so far yielded
    page_num,      \* loop index of parse_pdf
    all_text,      \* parse_pdf's all_text
    all_tables,    \* parse_pdf's all_tables
    full_text,     \* parse_pdf's full_text
    exc,           \* str(e) of the exception being handled
    file,          \* content of the output path
    opens,         \* times the output path was opened for writing
    exitCode,      \* process exit status, -1 while running
    dsText,        \* detect_sections harness: the argument
    dsOut,         \* detect_sections harness: the returned list
    dsPc           \* detect_sections harness: position

mainVars == <<argc, inputExists, ext, outWritable, pc, ppc, result, doc, pages,
              page_num, all_text, all_tables, full_text, exc, file, opens,
              exitCode>>
dsVars == <<dsText, dsOut, dsPc>>
vars == <<argc, inputExists, ext, outWritable, pc, ppc, result, doc, pages,
          page_num, all_text, all_tables, full_text, exc, file, opens,
          exitCode, dsText, dsOut, dsPc>>

NoResult == [shape |-> "none"]
Absent == [state |-> "absent"]
ParsedAt == "utcnow"

MainInit ==
    /\ pc = "start"
    /\ ppc = "idle"
    /\ result = NoResult
    /\ doc = "none"
    /\ pages = <<>>
    /\ page_num = 0
    /\ all_text = <<>>
    /\ all_tables = <<>>
    /\ full_text = <<>>
    /\ exc = ""
    /\ file = Absent
    /\ opens = 0
    /\ exitCode = -1
(***************************************************************************)
(* parse_pdf                                                               *)
(***************************************************************************)
LargeDocPages == 100
LowContentChars == 100

DefaultResult ==
    [success |-> FALSE,
     pageCount |-> 0,
     text |-> <<>>,
     tables |-> <<>>,
     metadata |-> EmptyDict,
     sections |-> <<>>,
     contentHash |-> <<>>,
     warnings |-> <<>>,
     parsedAt |-> ParsedAt]

\* metadata.get(k, "") for the seven keys
MapMetadata(metadata) ==
    [k \in MetadataKeys |->
        IF k \in DOMAIN metadata THEN metadata[k] ELSE ""]

\* f"--- Page {page_num + 1} ---\n"
PageMarker_Rank(n) ==
    <<"-", "-", "-", " ", "P", "a", "g", "e", " ">> \o Str(Len(all_text) + 1)
        \o <<" ", "-", "-", "-", "\n">>
PageMarker(n) ==
    <<"-", "-", "-", " ", "P", "a", "g", "e", " ">> \o Str(n + 1)
        \o <<" ", "-", "-", "-", "\n">>

\* the records appended to all_tables for one page
TableRecords(n, page_tables) ==
    [i \in 1..Len(page_tables) |-> [page |-> n + 1, data |-> page_tables[i]]]

\* the warnings appended after all stages completed
IssueWarnings(text, pageCount) ==
    (IF Len(Strip(text)) < LowContentChars
     THEN <<"Document appears to have very little text content">>
     ELSE <<>>)
    \o
    (IF pageCount > LargeDocPages
     THEN <<"Large document with " \o ToString(pageCount) \o " pages">>
     ELSE <<>>)

pdfLocals == <<pages, page_num, all_text, all_tables, full_text>>
envVars == <<argc, inputExists, ext, outWritable>>
outVars == <<file, opens, exitCode>>

\* result = {...}
PdfCreate ==
    /\ ppc = "create"
    /\ result' = DefaultResult
    /\ ppc' = "open"
    /\ UNCHANGED <<envVars, pc, doc, pdfLocals, exc, outVars, dsVars>>

\* doc = fitz.open(input_path); result["pageCount"] = len(doc)
PdfOpen ==
    /\ ppc = "open"
    /\ \/ \E n \in 0..MaxPages :
            /\ doc' = "open"
            /\ result' = [result EXCEPT !.pageCount = n]
            /\ ppc' = "metadata"
            /\ exc' = exc
       \/ /\ exc' = "Failed to open file"
          /\ ppc' = "except_FileDataError"
          /\ UNCHANGED <<doc, result>>
       \/ /\ exc' = "Permission denied"
          /\ ppc' = "except_Exception"
          /\ UNCHANGED <<doc, result>>
    /\ UNCHANGED <<envVars, pc, pdfLocals, outVars, dsVars>>

\* metadata = doc.metadata; if metadata: result["metadata"] = {...}
PdfMetadata ==
    /\ ppc = "metadata"
    /\ \E metadata \in DocMetadata :
          result' = IF metadata # EmptyDict
                    THEN [result EXCEPT !.metadata = MapMetadata(metadata)]
                    ELSE result
    /\ ppc' = "loop"
    /\ UNCHANGED <<envVars, pc, doc, pdfLocals, exc, outVars, dsVars>>

\* one iteration of: for page_num, page in enumerate(doc)
PdfPage ==
    /\ ppc = "loop"
    /\ page_num < result.pageCount
    /\ \/ \E page_text \in PageTexts, finder \in TableFinders :
            /\ pages' = Append(pages, [text |-> page_text, finder |-> finder])
            /\ all_text' = IF page_text # <<>>
                           THEN Append(all_text, PageMarker(page_num) \o page_text)
                           ELSE all_text
            /\ all_tables' = all_tables
                                \o TableRecords(page_num, extract_tables(finder))
            /\ page_num' = page_num + 1
            /\ UNCHANGED <<ppc, exc>>
       \/ /\ exc' = "page text extraction failed"      \* page.get_text() raises
          /\ ppc' = "except_Exception"
          /\ UNCHANGED <<pages, all_text, all_tables, page_num>>
    /\ UNCHANGED <<envVars, pc, result, doc, full_text, outVars, dsVars>>

\* full_text = "\n\n".join(all_text); result["text"] = full_text
PdfCombine ==
    /\ ppc = "loop"
    /\ page_num >= result.pageCount
    /\ full_text' = Join(<<"\n", "\n">>, all_text)
    /\ result' = [result EXCEPT !.text = full_text']
    /\ ppc' = "tables"
    /\ UNCHANGED <<envVars, pc, doc, pages, page_num, all_text, all_tables,
                   exc, outVars, dsVars>>

\* result["tables"] = all_tables
PdfSetTables ==
    /\ ppc = "tables"
    /\ result' = [result EXCEPT !.tables = all_tables]
    /\ ppc' = "hash"
    /\ UNCHANGED <<envVars, pc, doc, pdfLocals, exc, outVars, dsVars>>

\* result["contentHash"] = compute_hash(full_text)
PdfHash ==
    /\ ppc = "hash"
    /\ IF Encodable(full_text)
       THEN /\ result' = [result EXCEPT !.contentHash = compute_hash(full_text)]
            /\ ppc' = "sections"
            /\ exc' = exc
       ELSE /\ exc' = "'utf-8' codec can't encode character: surrogates not allowed"
            /\ ppc' = "except_Exception"
            /\ result' = result
    /\ UNCHANGED <<envVars, pc, doc, pdfLocals, outVars, dsVars>>

\* result["sections"] = detect_sections(full_text)
\* (the call can run out of memory while copying the text)
PdfSections ==
    /\ ppc = "sections"
    /\ \/ /\ exc' = "MemoryError"
          /\ ppc' = "except_Exception"
          /\ result' = result
       \/ /\ result' = [result EXCEPT !.sections = detect_sections(full_text)]
          /\ ppc' = "warnings"
          /\ exc' = exc
    /\ UNCHANGED <<envVars, pc, doc, pdfLocals, outVars, dsVars>>

\* the two "potential issues" checks
PdfWarnings ==
    /\ ppc = "warnings"
    /\ result' = [result EXCEPT
                    !.warnings = @ \o IssueWarnings(full_text, result.pageCount)]
    /\ ppc' = "close"
    /\ UNCHANGED <<envVars, pc, doc, pdfLocals, exc, outVars, dsVars>>

\* doc.close(); result["success"] = True
PdfClose ==
    /\ ppc = "close"
    /\ doc' = "closed"
    /\ result' = [result EXCEPT !.success = TRUE]
    /\ ppc' = "return"
    /\ UNCHANGED <<envVars, pc, pdfLocals, exc, outVars, dsVars>>

\* except fitz.FileDataError as e
PdfExceptFileData ==
    /\ ppc = "except_FileDataError"
    /\ result' = [result EXCEPT
                    !.warnings = Append(@, "PDF parsing error: " \o exc),
                    !.success = FALSE]
    /\ ppc' = "return"
    /\ UNCHANGED <<envVars, pc, doc, pdfLocals, exc, outVars, dsVars>>

\* except Exception as e
PdfExceptException ==
    /\ ppc = "except_Exception"
    /\ result' = [result EXCEPT
                    !.warnings = Append(@, "Unexpected error: " \o exc),
                    !.success = FALSE]
    /\ ppc' = "return"
    /\ UNCHANGED <<envVars, pc, doc, pdfLocals, exc, outVars, dsVars>>

\* return result, back in main after the call
PdfReturn ==
    /\ ppc = "return"
    /\ ppc' = "idle"
    /\ pc' = IF ext = "other" THEN "unknown_type" ELSE "write"
    /\ UNCHANGED <<envVars, result, doc, pdfLocals, exc, outVars, dsVars>>

(***************************************************************************)
(* parse_image                                                             *)
(***************************************************************************)
ImageResult ==
    [success |-> FALSE,
     pageCount |-> 1,
     text |-> <<>>,
     tables |-> <<>>,
     metadata |-> EmptyDict,
     sections |-> <<>>,
     contentHash |-> <<>>,
     warnings |-> <<"Image OCR not implemented - returning metadata only">>,
     parsedAt |-> ParsedAt]

parse_image(readable) ==
    IF readable
    THEN [ImageResult EXCEPT
            !.contentHash = Sha256Hex(ImageBytes),
            !.metadata = [k \in {"filename", "extension", "sizeBytes"} |->
                            CASE k = "filename" -> "input.png"
                              [] k = "extension" -> ".png"
                              [] k = "sizeBytes" -> ToString(Len(ImageBytes))],
            !.success = TRUE]
    ELSE [ImageResult EXCEPT
            !.warnings = Append(@, "Image parsing error: Permission denied"),
            !.success = FALSE]

(***************************************************************************)
(* main                                                                    *)
(***************************************************************************)
MissingInputResult ==
    [success |-> FALSE,
     error |-> "Input file not found: input_path",
     parsedAt |-> ParsedAt]

UncaughtResult(e) ==
    [success |-> FALSE,
     error |-> e,
     traceback |-> "Traceback (most recent call last): " \o e,
     parsedAt |-> ParsedAt]

\* json.dump(..., ensure_ascii=False) into a UTF-8 text file completes
\* iff every character of the document can be encoded
Serializable(r) == Encodable(r.text)

Written(d) == [state |-> "complete", doc |-> d]
Truncated(d) == [state |-> "partial", doc |-> d]

\* sys.exit(0 if result["success"] else 1)
ExitStatus_Zero(r) == 0
ExitStatus(r) == IF r.success THEN 0 ELSE 1

\* the warnings of an unknown-type input after the default PDF attempt
UnknownTypeWarnings(r) ==
    IF ~r.success
    THEN Append(r.warnings, "Unknown file type, attempted PDF parsing")
    ELSE r.warnings

\* if len(sys.argv) != 3: usage, sys.exit(1)
MainArgs ==
    /\ pc = "start"
    /\ IF argc # 3
       THEN /\ exitCode' = 1
            /\ pc' = "exited"
       ELSE /\ exitCode' = exitCode
            /\ pc' = "check_input"
    /\ UNCHANGED <<envVars, ppc, result, doc, pdfLocals, exc, file, opens, dsVars>>

\* if not Path(input_path).exists(): write the reduced shape, sys.exit(1)
\* (an open() that fails here is outside any try: the interpreter exits 1)
MainCheckInput ==
    /\ pc = "check_input"
    /\ IF ~inputExists
       THEN /\ IF outWritable
               THEN /\ file' = Written(MissingInputResult)
                    /\ opens' = opens + 1
               ELSE UNCHANGED <<file, opens>>
            /\ exitCode' = 1
            /\ pc' = "exited"
       ELSE /\ pc' = "route"
            /\ UNCHANGED <<file, opens, exitCode>>
    /\ UNCHANGED <<envVars, ppc, result, doc, pdfLocals, exc, dsVars>>

\* result = parse_pdf(input_path), for ".pdf" and for unknown suffixes
MainCallParsePdf ==
    /\ pc = "route"
    /\ ext \in {"pdf", "other"}
    /\ pc' = "in_parse_pdf"
    /\ ppc' = "create"
    /\ UNCHANGED <<envVars, result, doc, pdfLocals, exc, outVars, dsVars>>

\* result = parse_image(input_path)
MainCallParseImage ==
    /\ pc = "route"
    /\ ext = "image"
    /\ \E readable \in BOOLEAN : result' = parse_image(readable)
    /\ pc' = "write"
    /\ UNCHANGED <<envVars, ppc, doc, pdfLocals, exc, outVars, dsVars>>

\* if not result["success"]: result["warnings"].append("Unknown file type...")
MainUnknownType ==
    /\ pc = "unknown_type"
    /\ result' = [result EXCEPT !.warnings = UnknownTypeWarnings(result)]
    /\ pc' = "write"
    /\ UNCHANGED <<envVars, ppc, doc, pdfLocals, exc, outVars, dsVars>>

\* with open(output_path, 'w') as f: json.dump(result, f, ...)
MainWrite ==
    /\ pc = "write"
    /\ IF ~outWritable
       THEN /\ exc' = "Permission denied: output_path"
            /\ pc' = "handler"
            /\ UNCHANGED <<file, opens>>
       ELSE /\ opens' = opens + 1
            /\ IF Serializable(result)
               THEN /\ file' = Written(result)
                    /\ pc' = "sys_exit"
                    /\ exc' = exc
               ELSE /\ file' = Truncated(result)
                    /\ exc' = "'utf-8' codec can't encode character: surrogates not allowed"
                    /\ pc' = "handler"
    /\ UNCHANGED <<envVars, ppc, result, doc, pdfLocals, exitCode, dsVars>>

\* sys.exit(0 if result["success"] else 1); SystemExit is not an Exception
MainExit ==
    /\ pc = "sys_exit"
    /\ exitCode' = ExitStatus(result)
    /\ pc' = "exited"
    /\ UNCHANGED <<envVars, ppc, result, doc, pdfLocals, exc, file, opens, dsVars>>

\* the file the catch-all handler leaves at a writable output path
HandlerFile_Skipped(e) == file
HandlerFile(e) == Written(UncaughtResult(e))

\* except Exception as e: write the reduced shape, sys.exit(1)
\* (an open() that fails inside the handler ends the process with status 1)
MainHandler ==
    /\ pc = "handler"
    /\ IF outWritable
       THEN /\ file' = HandlerFile(exc)
            /\ opens' = opens + 1
       ELSE UNCHANGED <<file, opens>>
    /\ exitCode' = 1
    /\ pc' = "exited"
    /\ UNCHANGED <<envVars, ppc, result, doc, pdfLocals, exc, dsVars>>

(***************************************************************************)
(* The program: one invocation of main.                                    *)
(***************************************************************************)
Init ==
    /\ argc \in {2, 3}
    /\ inputExists \in BOOLEAN
    /\ ext \in Exts
    /\ outWritable \in BOOLEAN
    /\ MainInit
    /\ dsText = <<>>
    /\ dsOut = <<>>
    /\ dsPc = "unused"

Next ==
    \/ MainArgs
    \/ MainCheckInput
    \/ MainCallParsePdf
    \/ MainCallParseImage
    \/ MainUnknownType
    \/ MainWrite
    \/ MainExit
    \/ MainHandler
    \/ PdfCreate
    \/ PdfOpen
    \/ PdfMetadata
    \/ PdfPage
    \/ PdfCombine
    \/ PdfSetTables
    \/ PdfHash
    \/ PdfSections
    \/ PdfWarnings
    \/ PdfClose
    \/ PdfExceptFileData
    \/ PdfExceptException
    \/ PdfReturn

Spec == Init /\ [][Next]_vars

\* every statement of the single-threaded program eventually runs
FairSpec == Spec /\ WF_vars(Next)

(***************************************************************************)
(* detect_sections applied to arbitrary texts: a text is the concatenation *)
(* of at most MaxChunks chunks.                                            *)
(***************************************************************************)
Chunks ==
    { <<"\n">>, <<":">>, <<" ">>, <<"x">>,
      <<"\n", "H", "P", "I">>,
      <<"\n", "h", "p", "i">>,
      <<"H", "P", "I", ":">>,
      <<"\n", "P", "L", "A", "N">>,
      <<"\n", "A", "S", "S", "E", "S", "S", "M", "E", "N", "T">>,
      <<" ", "A", "N", "D", " ", "P", "L", "A", "N">>,
      <<"U+00DF", "U+00DF", "U+00DF", "U+00DF", "U+00DF", "U+00DF">> }

RECURSIVE TextsOf(_)
TextsOf(n) ==
    IF n = 0 THEN { <<>> }
    ELSE LET shorter == TextsOf(n - 1)
         IN shorter \cup { t \o c : t \in shorter, c \in Chunks }

DetectInit ==
    /\ dsText \in TextsOf(MaxChunks)
    /\ dsOut = <<>>
    /\ dsPc = "call"
    /\ argc = 3
    /\ inputExists = TRUE
    /\ ext = "pdf"
    /\ outWritable = TRUE
    /\ MainInit

\* sections = detect_sections(text)
DetectCall ==
    /\ dsPc = "call"
    /\ dsOut' = detect_sections(dsText)
    /\ dsPc' = "returned"
    /\ UNCHANGED <<dsText, mainVars>>

DetectNext == DetectCall

DetectSpec == DetectInit /\ [][DetectNext]_vars
(***************************************************************************)
(* Properties.                                                             *)
(***************************************************************************)
PdfRoute == ext \in {"pdf", "other"}
\* parse_pdf has returned its result to main
PdfReturned == PdfRoute /\ ppc = "idle" /\ result # NoResult
Exited == pc = "exited"

\* C1: the list detect_sections returns is sorted ascending by startIndex,
\* every non-last span ends where the next one starts, and the last span
\* ends at len(text).
C1_SectionsContiguous ==
    dsPc = "returned" =>
        /\ \A i \in 1..(Len(dsOut) - 1) :
              /\ dsOut[i].startIndex <= dsOut[i + 1].startIndex
              /\ dsOut[i].endIndex = dsOut[i + 1].startIndex
        /\ dsOut # <<>> => dsOut[Len(dsOut)].endIndex = Len(dsText)

\* two vocabulary entries matched at the same position
C1_Witness ==
    /\ dsPc = "returned"
    /\ \E i, j \in 1..Len(dsOut) :
          /\ i < j
          /\ dsOut[i].name # dsOut[j].name
          /\ dsOut[i].startIndex = dsOut[j].startIndex

\* C2: the result parse_pdf returns (also one returned with success = false
\* after a stage raised) has, whenever its text is non-empty, contentHash =
\* SHA-256 hex digest of exactly that text.
C2_HashMatchesText ==
    (PdfReturned /\ result.text # <<>>) =>
        /\ Encodable(result.text)
        /\ result.contentHash = Sha256Hex(Utf8(result.text))

\* C3: once parse_pdf has returned to its caller, a document handle that
\* was opened is closed.
C3_HandleClosedOnReturn ==
    (PdfRoute /\ ppc = "idle") => doc # "open"

ParseResultKeys == DOMAIN DefaultResult
MissingInputKeys == {"success", "error", "parsedAt"}
UncaughtKeys == {"success", "error", "traceback", "parsedAt"}
WellFormedArtifact ==
    /\ file.state = "complete"
    /\ DOMAIN file.doc \in {ParseResultKeys, MissingInputKeys, UncaughtKeys}
    /\ file.doc.success \in BOOLEAN
    /\ ~inputExists <=> DOMAIN file.doc = MissingInputKeys
    /\ file.doc.success => DOMAIN file.doc = ParseResultKeys

\* C4: every invocation terminates, and when it has exited with a writable
\* output path, a complete document of one of the three shapes is at the
\* output path (the reduced missing-input shape exactly when the input is
\* missing).
C4_ArtifactPersisted ==
    /\ <>Exited
    /\ []((Exited /\ argc = 3 /\ outWritable) => WellFormedArtifact)

\* serialization raised half-way and the catch-all handler replaced the
\* truncated document
C4_Witness ==
    /\ Exited
    /\ outWritable
    /\ opens = 2
    /\ file.state = "complete"
    /\ DOMAIN file.doc = UncaughtKeys

\* C5: an invocation with a writable output path has opened and written the
\* output path exactly once when it exits.
C5_WrittenOnce ==
    (Exited /\ argc = 3 /\ outWritable) => opens = 1

\* C6: the exit code is 0 iff the artifact left at the output path has
\* success = true, and 1 on every other path.
C6_ExitCodeIffSuccess ==
    Exited =>
        /\ exitCode \in {0, 1}
        /\ exitCode = 0 <=> (file.state = "complete" /\ file.doc.success)

\* a successful pipeline run that exited with 0
C6_Witness ==
    /\ Exited
    /\ exitCode = 0
    /\ file.state = "complete"
    /\ file.doc.success
    /\ file.doc.sections # <<>>

\* C7: a result returned by a run of parse_pdf that completed without
\* raising and extracted no text (text = "") has contentHash = "".
C7_EmptyTextEmptyHash ==
    (PdfReturned /\ result.success /\ result.text = <<>>) =>
        result.contentHash = <<>>

\* "--- Page k ---\n" for the 1-based position k
ExpectedMarker(k) ==
    <<"-", "-", "-", " ", "P", "a", "g", "e", " ">> \o Str(k)
        \o <<" ", "-", "-", "-", "\n">>
RECURSIVE ExpectedFrom(_, _)
ExpectedFrom(ps, k) ==
    IF k > Len(ps) THEN <<>>
    ELSE IF ps[k].text = <<>> THEN ExpectedFrom(ps, k + 1)
    ELSE ExpectedMarker(k) \o ps[k].text
            \o (IF \E j \in (k + 1)..Len(ps) : ps[j].text # <<>>
                THEN <<"\n", "\n">> \o ExpectedFrom(ps, k + 1)
                ELSE <<>>)
MarkerPrefix == <<"-", "-", "-", " ", "P", "a", "g", "e", " ">>
MarkerCount(text) ==
    Cardinality({i \in 1..(Len(text) - Len(MarkerPrefix) + 1) :
                    SubSeq(text, i, i + Len(MarkerPrefix) - 1) = MarkerPrefix})

\* C8: after a run of parse_pdf without error, pageCount is the number of
\* pages and text is the "\n\n"-joined sequence of "--- Page k ---\n" +
\* page text over the non-empty pages, k the page's 1-based position; the
\* number of markers is the number of non-empty pages.
C8_TextIsPagesInOrder ==
    (PdfRoute /\ result # NoResult /\ result.success) =>
        /\ result.pageCount = Len(pages)
        /\ result.text = ExpectedFrom(pages, 1)
        /\ MarkerCount(result.text)
              = Cardinality({k \in 1..Len(pages) : pages[k].text # <<>>})

\* a two-page document whose first page is empty and second is not
C8_Witness ==
    /\ PdfReturned
    /\ result.success
    /\ Len(pages) = 2
    /\ pages[1].text = <<>>
    /\ pages[2].text # <<>>

UnknownTypeWarning == "Unknown file type, attempted PDF parsing"
ParseFailureWarnings ==
    { "PDF parsing error: Failed to open file",
      "Unexpected error: Permission denied",
      "Unexpected error: page text extraction failed",
      "Unexpected error: 'utf-8' codec can't encode character: surrogates not allowed",
      "Unexpected error: MemoryError" }
HasBothWarnings(w) ==
    \E i \in 1..Len(w) :
        /\ w[i] \in ParseFailureWarnings
        /\ \E j \in (i + 1)..Len(w) : w[j] = UnknownTypeWarning

\* C9: for an input of unknown suffix whose PDF attempt failed, the written
\* result has success = false and warnings holding the parse-failure warning
\* and, after it, the unknown-type warning; no other written result holds
\* the unknown-type warning.
C9_UnknownTypeWarning ==
    (Exited /\ argc = 3 /\ inputExists /\ outWritable) =>
        /\ (ext = "other" /\ ~result.success) =>
              /\ file.state = "complete"
              /\ ~file.doc.success
              /\ "warnings" \in DOMAIN file.doc
              /\ HasBothWarnings(file.doc.warnings)
        /\ (file.state = "complete" /\ "warnings" \in DOMAIN file.doc
              /\ \E i \in 1..Len(file.doc.warnings) :
                    file.doc.warnings[i] = UnknownTypeWarning)
            => (ext = "other" /\ ~result.success)

\* find_tables() or some table.extract() raised on the page
TableAttemptRaised(finder) ==
    \/ finder.raises
    \/ \E i \in 1..Len(finder.tables) : finder.tables[i].raises

\* C10: a page on which table detection or extraction raised contributes no
\* TableRecord; the records are in page order; a run that completed has
\* success = true and only the content warnings.
C10_FailedPageNoTables ==
    (PdfRoute /\ result # NoResult) =>
        /\ \A k \in 1..Len(pages) :
              TableAttemptRaised(pages[k].finder) =>
                  \A i \in 1..Len(all_tables) : all_tables[i].page # k
        /\ \A i \in 1..(Len(all_tables) - 1) :
              all_tables[i].page <= all_tables[i + 1].page
        /\ result.success =>
              result.warnings = IssueWarnings(result.text, result.pageCount)

\* the needle occurs in the haystack at 0-based offset i
OccursAt(haystack, needle, i) ==
    /\ i + Len(needle) <= Len(haystack)
    /\ \A d \in 1..Len(needle) : haystack[i + d] = needle[d]
Occurs(haystack, needle) ==
    \E i \in 0..Len(haystack) : OccursAt(haystack, needle, i)
Leftmost(haystack, needle) ==
    CHOOSE i \in 0..Len(haystack) :
        /\ OccursAt(haystack, needle, i)
        /\ \A j \in 0..(i - 1) : ~OccursAt(haystack, needle, j)
NeedleColon(H) == <<"\n">> \o H \o <<":">>
NeedleNewline(H) == <<"\n">> \o H \o <<"\n">>
NeedleSpace(H) == <<"\n">> \o H \o <<" ">>
ExpectedNeedleIndex(u, H) ==
    IF Occurs(u, NeedleColon(H)) THEN Leftmost(u, NeedleColon(H))
    ELSE IF Occurs(u, NeedleNewline(H)) THEN Leftmost(u, NeedleNewline(H))
    ELSE Leftmost(u, NeedleSpace(H))

\* C11: for every vocabulary entry H, detect_sections returns at most one
\* span named H, and one iff some needle "\nH:", "\nH\n", "\nH " occurs in
\* the upper-cased text; its startIndex is 1 + the leftmost index of the
\* highest-priority needle that occurs (colon, newline, space), so it is
\* never 0: a header at offset 0 without a preceding newline gives no span.
C11_OneSpanPerHeader ==
    dsPc = "returned" =>
        \A k \in 1..Len(section_patterns) :
            LET H == section_patterns[k]
                u == Upper(dsText)
                named == {i \in 1..Len(dsOut) : dsOut[i].name = H}
            IN /\ Cardinality(named) <= 1
               /\ named # {} <=> \/ Occurs(u, NeedleColon(H))
                                 \/ Occurs(u, NeedleNewline(H))
                                 \/ Occurs(u, NeedleSpace(H))
               /\ \A i \in named :
                     /\ dsOut[i].startIndex = 1 + ExpectedNeedleIndex(u, H)
                     /\ dsOut[i].startIndex >= 1

\* a lower-priority needle occurs earlier in the text than the colon needle
\* that decides the span
C11_Witness ==
    /\ dsPc = "returned"
    /\ \E i \in 1..Len(dsOut) :
          LET H == dsOut[i].name
              u == Upper(dsText)
          IN /\ Occurs(u, NeedleColon(H))
             /\ Occurs(u, NeedleNewline(H))
             /\ Leftmost(u, NeedleNewline(H)) < Leftmost(u, NeedleColon(H))
             /\ dsOut[i].startIndex = 1 + Leftmost(u, NeedleColon(H))

\* C12: every span is a valid range of the original text, 1 <= startIndex
\* <= endIndex <= len(text), and the original text has a newline at
\* startIndex - 1 and, from startIndex on, the header name up to case.
C12_SpansIndexOriginalText ==
    dsPc = "returned" =>
        \A i \in 1..Len(dsOut) :
            LET start == dsOut[i].startIndex
                name == dsOut[i].name
            IN /\ 1 <= start
               /\ start <= dsOut[i].endIndex
               /\ dsOut[i].endIndex <= Len(dsText)
               /\ dsText[start] = "\n"
               /\ start + Len(name) <= Len(dsText)
               /\ Upper(SubSeq(dsText, start + 1, start + Len(name))) = name

====
